---- MODULE Spec2Model ----
(***************************************************************************)
(* rtNEAT steady-state evolution controller (ai/rtneat/rtNEAT.cpp):        *)
(* the actor<->Brain binding table, the per-tick fitness pass, and the     *)
(* evolution scheduler.                                                    *)
(*                                                                         *)
(* Numbers: raw scores are integers; Organism::fitness is kept in          *)
(* hundredths (fitness 1.0 is 100) so that the 0.01 smiting factor is      *)
(* exact; NEAT::compat_threshold is kept in tenths (0.3 is 3).             *)
(***************************************************************************)
EXTENDS Integers, Sequences, FiniteSets, TLC

\* ---------------------------------------------------------------- bounds
PopSize == 2
NumActors == 3
MaxQueue == 3
MaxUninit == 1
TickSlack == 3
DeleteSlack == 1
MaxOffspring == 3
MaxTimeAlive == 2
MaxAge == 1
MaxScore == 2
MaxCompat == 5
LargePop == 20

\* ------------------------------------------------------ program constants
time_alive_minimum == 1
num_species_target == 4
kNumSpeciesTarget == 5
compat_mod == 1
kMinCompat == 3
FitnessScale == 100
SmiteScale == 1
ScenarioDeletions == 5
ScenarioTicks == 10
ScenarioFiringTick == 13

Brains == 1 .. PopSize
Actors == 1 .. NumActors
OrgIds == 1 .. (PopSize + MaxOffspring)
NoOrg == 0
NoBrain == 0
Scores == (0 - MaxScore) .. MaxScore
Uninit == 0 .. MaxUninit
SpeciesCounts == {num_species_target - 1, num_species_target, num_species_target + 1}

VARIABLES
    debug,                \* the build keeps Assert/AssertMsg (debug) or drops them
    halted,               \* "running", "assert" (assertion failure), "undefined"
    present,              \* actors the simulation's Find() still returns
    mWaitingBrainList,    \* std::queue<PyOrganismPtr>
    mBrainBodyMap,        \* boost::bimap<body, brain>, as a set of <<actor, brain>>
    mBrainList,           \* std::vector<PyOrganismPtr>
    mOrganism,            \* PyOrganism::mOrganism, per Brain
    mAbsoluteScore,       \* PyOrganism::mAbsoluteScore, per Brain
    organisms,            \* mPopulation->organisms
    time_alive,           \* Organism::time_alive
    fitness,              \* Organism::fitness, in hundredths
    smited,               \* Organism::smited
    mOffspringCount,
    mTotalUnitsDeleted,
    mEvolutionTickCount,
    mUnitsToDeleteBeforeFirstJudgment,
    mTimeBetweenEvolutions,
    compat_threshold,     \* NEAT::compat_threshold, in tenths
    obtained,             \* history: Brain last returned to each actor since its last release/disappearance
    deletionsObserved,    \* history: deleteUnit calls since construction
    ticksSinceLastEvolution, \* history: ticks since construction or the last evolution cycle
    evolved,              \* history: evolveAll has been called since construction
    last                  \* history: what the last operation did

vars == << debug, halted, present, mWaitingBrainList, mBrainBodyMap, mBrainList,
           mOrganism, mAbsoluteScore, organisms, time_alive, fitness, smited,
           mOffspringCount, mTotalUnitsDeleted, mEvolutionTickCount,
           mUnitsToDeleteBeforeFirstJudgment, mTimeBetweenEvolutions,
           compat_threshold, obtained, deletionsObserved, ticksSinceLastEvolution,
           evolved, last >>

bindingVars == << mWaitingBrainList, mBrainBodyMap >>
genomeVars == << mBrainList, mOrganism, mAbsoluteScore, organisms, time_alive,
                 fitness, smited, mOffspringCount, compat_threshold >>
schedVars == << mTotalUnitsDeleted, mEvolutionTickCount,
                mUnitsToDeleteBeforeFirstJudgment, mTimeBetweenEvolutions,
                deletionsObserved, ticksSinceLastEvolution, evolved >>

\* ---------------------------------------------------------------- helpers
Count(q, b) == Cardinality({i \in DOMAIN q : q[i] = b})

Min(S) == CHOOSE x \in S : \A y \in S : x <= y

\* bimap left view: find(body) != end
have_organism(agent) == \E p \in mBrainBodyMap : p[1] = agent

\* found->second of the left view
LeftAt(map, agent) == (CHOOSE p \in map : p[1] = agent)[2]

\* bimap::insert: a relation that is unique on both sides refuses a pair
\* whose body or whose brain is already present
BimapInsert(map, agent, brain) ==
    IF \E p \in map : p[1] = agent \/ p[2] = brain
    THEN map
    ELSE map \cup {<< agent, brain >>}

\* mBrainBodyMap.right.erase(brain)
RightErase(map, brain) == {p \in map : p[2] # brain}

\* RTNEAT::ready
ready == mWaitingBrainList # << >>

\* ------------------------------------------------------------ constructor
\* what RTNEAT::RTNEAT sets for a population of population_size Organisms:
\* one Brain per Organism, every Brain waiting, nothing bound, mBrainList
\* empty, mOffspringCount the population size
RTNEAT(population_size) ==
    /\ halted = "running"
    /\ present = {}
    /\ mWaitingBrainList = [i \in 1 .. population_size |-> i]
    /\ mBrainBodyMap = {}
    /\ mOrganism = [b \in 1 .. population_size |-> b]
    /\ organisms = 1 .. population_size
    /\ mOffspringCount = population_size
    /\ obtained = [a \in Actors |-> NoBrain]
    /\ deletionsObserved = 0
    /\ ticksSinceLastEvolution = 0
    /\ evolved = FALSE
    /\ last = [op |-> "init"]

Constructed == RTNEAT(PopSize)

\* a population of population_size Organisms nobody has evaluated yet
Unevaluated(population_size) ==
    /\ mAbsoluteScore = [b \in 1 .. population_size |-> 0]
    /\ time_alive = [o \in 1 .. (population_size + MaxOffspring) |-> 0]
    /\ fitness = [o \in 1 .. (population_size + MaxOffspring) |-> 0]
    /\ smited = [o \in 1 .. (population_size + MaxOffspring) |-> FALSE]

FreshPopulation == Unevaluated(PopSize)

\* The constructor's initializer list names mPopulation, mWaitingBrainList,
\* mBrainList and mOffspringCount only: the two counters and the two
\* thresholds of ProcessTick start indeterminate. compat_threshold comes
\* from the parameter file.
Init ==
    /\ Constructed
    /\ FreshPopulation
    /\ debug \in BOOLEAN
    /\ mBrainList = << >>
    /\ mTotalUnitsDeleted \in Uninit
    /\ mEvolutionTickCount \in Uninit
    /\ mUnitsToDeleteBeforeFirstJudgment \in Uninit
    /\ mTimeBetweenEvolutions \in Uninit
    /\ compat_threshold \in (kMinCompat - 1) .. (kMinCompat + 1)

\* ----------------------------------------------------------- get_organism
\* RTNEAT::get_organism, bound branch and unbound branch with a Brain waiting
get_organism(agent) ==
    /\ halted = "running"
    /\ agent \in present
    /\ have_organism(agent) \/ ready
    /\ LET brain == IF have_organism(agent)
                    THEN LeftAt(mBrainBodyMap, agent)
                    ELSE Head(mWaitingBrainList)
       IN /\ mWaitingBrainList' = IF have_organism(agent)
                                  THEN mWaitingBrainList
                                  ELSE Tail(mWaitingBrainList)
          /\ mBrainBodyMap' = IF have_organism(agent)
                              THEN mBrainBodyMap
                              ELSE BimapInsert(mBrainBodyMap, agent, brain)
          /\ obtained' = [obtained EXCEPT ![agent] = brain]
          /\ last' = [op |-> "get", actor |-> agent, brain |-> brain,
                      prev |-> obtained[agent]]
    /\ UNCHANGED << debug, halted, present, genomeVars, schedVars >>

\* RTNEAT::get_organism, unbound with the queue empty: front() and pop() of
\* an empty std::queue are undefined; the call may crash or hand out anything
get_organism_empty(agent) ==
    /\ halted = "running"
    /\ agent \in present
    /\ ~have_organism(agent)
    /\ ~ready
    /\ halted' = "undefined"
    /\ \E brain \in Brains \cup {NoBrain} :
          /\ mBrainBodyMap' \in {mBrainBodyMap} \cup
                 {BimapInsert(mBrainBodyMap, agent, b) : b \in {brain} \cap Brains}
          /\ last' = [op |-> "get", actor |-> agent, brain |-> brain,
                      prev |-> obtained[agent]]
    /\ UNCHANGED << debug, present, mWaitingBrainList, obtained, genomeVars, schedVars >>

\* ------------------------------------------------------- release_organism
\* RTNEAT::release_organism for a bound agent: the Brain is pushed onto the
\* waiting queue; the map is not touched
release_organism(agent) ==
    /\ halted = "running"
    /\ agent \in present
    /\ have_organism(agent)
    /\ Len(mWaitingBrainList) < MaxQueue
    /\ mWaitingBrainList' = Append(mWaitingBrainList, LeftAt(mBrainBodyMap, agent))
    /\ obtained' = [obtained EXCEPT ![agent] = NoBrain]
    /\ last' = [op |-> "release", actor |-> agent,
                brain |-> LeftAt(mBrainBodyMap, agent)]
    /\ UNCHANGED << debug, halted, present, mBrainBodyMap, genomeVars, schedVars >>

\* a release that pushes before it tests its iterator
release_organism_unbound_late(agent) ==
    /\ halted = "running"
    /\ agent \in present
    /\ ~have_organism(agent)
    /\ halted' = IF debug THEN "assert" ELSE "undefined"
    /\ mWaitingBrainList' = Append(mWaitingBrainList, NoBrain)
    /\ last' = [op |-> "release", actor |-> agent, brain |-> NoBrain]
    /\ UNCHANGED << debug, present, mBrainBodyMap, obtained, genomeVars, schedVars >>

\* RTNEAT::release_organism for an agent with no binding: the Assert stops a
\* debug build; without it found->second dereferences the end iterator
release_organism_unbound(agent) ==
    /\ halted = "running"
    /\ agent \in present
    /\ ~have_organism(agent)
    /\ IF debug
       THEN /\ halted' = "assert"
            /\ UNCHANGED mWaitingBrainList
       ELSE /\ halted' = "undefined"
            /\ mWaitingBrainList' \in
                  {mWaitingBrainList} \cup
                  {Append(mWaitingBrainList, b) : b \in Brains \cup {NoBrain}}
    /\ last' = [op |-> "release", actor |-> agent, brain |-> NoBrain]
    /\ UNCHANGED << debug, present, mBrainBodyMap, obtained, genomeVars, schedVars >>

\* ------------------------------------------------------------- simulation
\* a new actor enters the simulation (an identity the table does not hold)
ActorAppears(a) ==
    /\ halted = "running"
    /\ a \notin present
    /\ ~have_organism(a)
    /\ present' = present \cup {a}
    /\ last' = [op |-> "appear", actor |-> a]
    /\ UNCHANGED << debug, halted, bindingVars, obtained, genomeVars, schedVars >>

\* an actor leaves the simulation: Find(id) returns nothing from now on
ActorDisappears(a) ==
    /\ halted = "running"
    /\ a \in present
    /\ present' = present \ {a}
    /\ obtained' = [obtained EXCEPT ![a] = NoBrain]
    /\ last' = [op |-> "disappear", actor |-> a]
    /\ UNCHANGED << debug, halted, bindingVars, genomeVars, schedVars >>

\* an organism accumulates one evaluation tick (done by its user)
OrganismAges(o) ==
    /\ halted = "running"
    /\ o \in organisms
    /\ time_alive[o] < MaxAge
    /\ time_alive' = [time_alive EXCEPT ![o] = @ + 1]
    /\ last' = [op |-> "age", org |-> o]
    /\ UNCHANGED << debug, halted, present, bindingVars, obtained, mBrainList,
                    mOrganism, mAbsoluteScore, organisms, fitness, smited,
                    mOffspringCount, compat_threshold, schedVars >>

\* ------------------------------------------------------------- deleteUnit
\* RTNEAT::deleteUnit on the table state S = [q, map, del]
deleteUnit(S, brain) ==
    [q |-> Append(S.q, brain),
     map |-> RightErase(S.map, brain),
     del |-> S.del + 1]

\* a scan that detaches nobody
DetectNoDeaths(a, S) == S

\* ProcessTick's scan of the left view, in key order from actor a on:
\* every body the simulation no longer finds has its Brain deleteUnit-ed
RECURSIVE DetectDeaths(_, _)
DetectDeaths(a, S) ==
    IF a > NumActors
    THEN S
    ELSE IF (\E p \in S.map : p[1] = a) /\ a \notin present
         THEN DetectDeaths(a + 1, deleteUnit(S, LeftAt(S.map, a)))
         ELSE DetectDeaths(a + 1, S)

\* ------------------------------------------------------------ evaluateAll
\* the eligibility test of every loop of evaluateAll
Eligible(ta, b) == ta[mOrganism[b]] >= time_alive_minimum

\* first loop: an eligible Brain whose time_alive is a positive multiple of
\* time_alive_minimum has its Organism's time_alive incremented
RECURSIVE AgeLoop(_, _)
AgeLoop(i, ta) ==
    IF i > Len(mBrainList)
    THEN ta
    ELSE LET o == mOrganism[mBrainList[i]]
         IN IF ta[o] >= time_alive_minimum
               /\ ta[o] % time_alive_minimum = 0
               /\ ta[o] > 0
            THEN AgeLoop(i + 1, [ta EXCEPT ![o] = @ + 1])
            ELSE AgeLoop(i + 1, ta)

\* second loop: minAbsoluteScore starts at 0 and takes every lower eligible score
minAbsoluteScore(ta) ==
    Min({0} \cup {mAbsoluteScore[mBrainList[i]] :
                    i \in {j \in DOMAIN mBrainList : Eligible(ta, mBrainList[j])}})

\* a shift that leaves the minimum one above zero
modifiedFitnessOffByOne(score, minAbs) ==
    IF score - minAbs + 1 < 0 THEN 0 ELSE score - minAbs + 1

\* modifiedFitness of the shifting branch, clamped at 0
modifiedFitness(score, minAbs) ==
    IF score - minAbs < 0 THEN 0 ELSE score - minAbs

\* the pass without its shifting branch
AssignedFitnessUnshifted(score, minAbs, isSmited) ==
    IF ~isSmited THEN FitnessScale * score ELSE SmiteScale * score

\* the pass with the smited branch writing the un-smited value
AssignedFitnessUnsmited(score, minAbs, isSmited) ==
    IF minAbs < 0
    THEN FitnessScale * modifiedFitness(score, minAbs)
    ELSE FitnessScale * score

\* the value written to Organism::fitness (hundredths) for one eligible Brain
AssignedFitness(score, minAbs, isSmited) ==
    IF minAbs < 0
    THEN IF ~isSmited
         THEN FitnessScale * modifiedFitness(score, minAbs)
         ELSE SmiteScale * modifiedFitness(score, minAbs)
    ELSE IF ~isSmited
         THEN FitnessScale * score
         ELSE SmiteScale * score

\* third loop: fitness is written for every eligible Brain, in list order
RECURSIVE FitnessLoop(_, _, _, _)
FitnessLoop(i, fit, ta, minAbs) ==
    IF i > Len(mBrainList)
    THEN fit
    ELSE LET b == mBrainList[i]
             o == mOrganism[b]
         IN IF Eligible(ta, b)
            THEN FitnessLoop(i + 1,
                    [fit EXCEPT ![o] = AssignedFitness(mAbsoluteScore[b], minAbs, smited[o])],
                    ta, minAbs)
            ELSE FitnessLoop(i + 1, fit, ta, minAbs)

\* RTNEAT::evaluateAll with the assertions compiled out: the new
\* time_alive and fitness of every Organism
evaluateAll ==
    LET ta == AgeLoop(1, time_alive)
    IN [time_alive |-> ta,
        fitness |-> FitnessLoop(1, fitness, ta, minAbsoluteScore(ta))]

\* RTNEAT::evaluateAll with the assertions kept: the first eligible Brain
\* stops the pass at its "start next trial" assertion, after its increment;
\* with none eligible the pass stops at the doCalculations assertion
evaluateAllAsserting ==
    LET el == {j \in DOMAIN mBrainList : Eligible(time_alive, mBrainList[j])}
    IN IF el = {}
       THEN time_alive
       ELSE LET o == mOrganism[mBrainList[Min(el)]]
            IN IF time_alive[o] % time_alive_minimum = 0 /\ time_alive[o] > 0
               THEN [time_alive EXCEPT ![o] = @ + 1]
               ELSE time_alive

\* -------------------------------------------------------------- evolveAll
\* Population::remove_worst: the Organism it removes, NoOrg when none has
\* lived time_alive_minimum; ties are the Genome Engine's to break
remove_worst(orgs, ta, fit) ==
    LET old == {o \in orgs : ta[o] >= time_alive_minimum}
    IN IF old = {}
       THEN {NoOrg}
       ELSE {o \in old : \A p \in old : fit[o] <= fit[p]}

\* Species::reproduce_one: one new Organism joins the population
reproduce_one(orgs, count) == orgs \cup {count + 1}

\* a cycle that removes without reproducing
PopulationAfterRemovalOnly(orgs, deadorg, count) == orgs \ {deadorg}

\* mPopulation->organisms after evolveAll took deadorg out
PopulationAfter(orgs, deadorg, count) ==
    IF deadorg # NoOrg
    THEN reproduce_one(orgs \ {deadorg}, count)
    ELSE orgs

\* mOffspringCount after evolveAll
OffspringCountAfter(count, deadorg) ==
    IF deadorg # NoOrg THEN count + 1 ELSE count

\* compat_adjust_frequency = mBrainList.size()/10, at least 1
compat_adjust_frequency ==
    IF Len(mBrainList) \div 10 < 1 THEN 1 ELSE Len(mBrainList) \div 10

\* the adjustment without its floor
AdjustCompatUnclamped(t, num_species) ==
    IF num_species < num_species_target
    THEN t - compat_mod
    ELSE IF num_species > num_species_target
         THEN t + compat_mod
         ELSE t

\* the threshold after one adjustment with num_species species
AdjustCompat(t, num_species) ==
    LET moved == IF num_species < num_species_target
                 THEN t - compat_mod
                 ELSE IF num_species > num_species_target
                      THEN t + compat_mod
                      ELSE t
    IN IF moved < kMinCompat THEN kMinCompat ELSE moved

\* does this cycle re-tune the threshold and reassign the species?
Adjusts(deadorg, countAfter) ==
    deadorg # NoOrg /\ countAfter % compat_adjust_frequency = 0

\* the Brains of mBrainList whose Organism is deadorg; the hot swap takes the first
SwapIndex(deadorg) ==
    {i \in DOMAIN mBrainList :
        /\ mOrganism[mBrainList[i]] = deadorg
        /\ \A j \in 1 .. (i - 1) : mOrganism[mBrainList[j]] # deadorg}

\* the table after evolveAll's hot swap: deleteUnit of the swapped Brain
HotSwapTable(S, deadorg) ==
    IF deadorg # NoOrg /\ SwapIndex(deadorg) # {}
    THEN deleteUnit(S, mBrainList[CHOOSE i \in SwapIndex(deadorg) : TRUE])
    ELSE S

\* mOrganism after the hot swap: SetOrganism(new_org) on the swapped Brain
HotSwapOrganism(deadorg, new_org) ==
    IF deadorg # NoOrg /\ SwapIndex(deadorg) # {}
    THEN [mOrganism EXCEPT ![mBrainList[CHOOSE i \in SwapIndex(deadorg) : TRUE]] = new_org]
    ELSE mOrganism

\* the activation test of ProcessTick
Judgment(deleted, ticks) ==
    deleted >= mUnitsToDeleteBeforeFirstJudgment /\ ticks >= mTimeBetweenEvolutions

\* a tick that never resets the counter
TickCountAfterNoReset(fire, ticks) == ticks

\* mEvolutionTickCount at the end of a tick
TickCountAfter(fire, ticks) == IF fire THEN 0 ELSE ticks

\* ------------------------------------------------------------ ProcessTick
\* RTNEAT::ProcessTick: counters, death detection, evaluateAll, and evolveAll
\* when the activation test passes
ProcessTick ==
    /\ halted = "running"
    /\ mEvolutionTickCount < mTimeBetweenEvolutions + TickSlack
    /\ LET ticks == mEvolutionTickCount + 1
           absent == {p \in mBrainBodyMap : p[1] \notin present}
           S0 == [q |-> mWaitingBrainList, map |-> mBrainBodyMap,
                  del |-> mTotalUnitsDeleted]
           S1 == DetectDeaths(1, S0)
           seen == deletionsObserved + (S1.del - S0.del)
       IN /\ S1.del <= mUnitsToDeleteBeforeFirstJudgment + DeleteSlack
          /\ obtained' = [a \in Actors |->
                            IF \E p \in absent : p[1] = a THEN NoBrain ELSE obtained[a]]
          /\ IF debug
             THEN \* the FIXME assertions of evaluateAll stop the tick
                  /\ halted' = "assert"
                  /\ Len(S1.q) > Len(mWaitingBrainList) => Len(S1.q) <= MaxQueue
                  /\ mWaitingBrainList' = S1.q
                  /\ mBrainBodyMap' = S1.map
                  /\ mTotalUnitsDeleted' = S1.del
                  /\ mEvolutionTickCount' = ticks
                  /\ time_alive' = evaluateAllAsserting
                  /\ deletionsObserved' = seen
                  /\ ticksSinceLastEvolution' = ticksSinceLastEvolution + 1
                  /\ last' = [op |-> "tick", completed |-> FALSE, absent |-> absent]
                  /\ UNCHANGED << fitness, organisms, mOrganism, mOffspringCount,
                                  compat_threshold, evolved >>
             ELSE LET E == evaluateAll
                      fire == Judgment(S1.del, ticks)
                  IN \E deadorg \in (IF fire
                                      THEN remove_worst(organisms, E.time_alive, E.fitness)
                                      ELSE {NoOrg}),
                        num_species \in SpeciesCounts :
                       LET count == OffspringCountAfter(mOffspringCount, deadorg)
                           adjusted == fire /\ Adjusts(deadorg, count)
                           S2 == IF fire THEN HotSwapTable(S1, deadorg) ELSE S1
                       IN /\ halted' = halted
                          /\ \A o \in DOMAIN time_alive : E.time_alive[o] <= MaxTimeAlive
                          /\ count \in DOMAIN time_alive
                          /\ Len(S2.q) > Len(mWaitingBrainList) => Len(S2.q) <= MaxQueue
                          /\ adjusted \/ num_species = num_species_target
                          /\ mWaitingBrainList' = S2.q
                          /\ mBrainBodyMap' = S2.map
                          /\ mTotalUnitsDeleted' = S2.del
                          /\ mEvolutionTickCount' = TickCountAfter(fire, ticks)
                          /\ organisms' = PopulationAfter(organisms, deadorg, mOffspringCount)
                          /\ mOffspringCount' = count
                          /\ mOrganism' = HotSwapOrganism(deadorg, count)
                          \* the removed Organism's record goes with it; the
                          \* offspring starts unevaluated
                          /\ time_alive' = IF deadorg # NoOrg
                                           THEN [E.time_alive EXCEPT ![deadorg] = 0,
                                                                     ![count] = 0]
                                           ELSE E.time_alive
                          /\ fitness' = IF deadorg # NoOrg
                                        THEN [E.fitness EXCEPT ![deadorg] = 0,
                                                                 ![count] = 0]
                                        ELSE E.fitness
                          /\ compat_threshold' = IF adjusted
                                                 THEN AdjustCompat(compat_threshold, num_species)
                                                 ELSE compat_threshold
                          /\ compat_threshold' <= MaxCompat
                          /\ deletionsObserved' = seen + (S2.del - S1.del)
                          /\ ticksSinceLastEvolution' =
                                IF fire THEN 0 ELSE ticksSinceLastEvolution + 1
                          /\ evolved' = (evolved \/ fire)
                          /\ last' = [op |-> "tick", completed |-> TRUE,
                                      absent |-> absent,
                                      fired |-> fire,
                                      again |-> evolved,
                                      deletedAtTest |-> seen,
                                      ticksAtTest |-> ticksSinceLastEvolution + 1,
                                      removed |-> deadorg,
                                      born |-> IF deadorg # NoOrg THEN count ELSE NoOrg,
                                      adjusted |-> adjusted,
                                      species |-> num_species,
                                      compatBefore |-> compat_threshold,
                                      popBefore |-> organisms]
    /\ UNCHANGED << debug, present, mBrainList, mAbsoluteScore, smited,
                    mUnitsToDeleteBeforeFirstJudgment, mTimeBetweenEvolutions >>

\* ---------------------------------------------------------- specifications
\* every operation of the controller and of its surroundings
Next ==
    \/ \E a \in Actors : get_organism(a)
    \/ \E a \in Actors : get_organism_empty(a)
    \/ \E a \in Actors : release_organism(a)
    \/ \E a \in Actors : release_organism_unbound(a)
    \/ \E a \in Actors : ActorAppears(a)
    \/ \E a \in Actors : ActorDisappears(a)
    \/ \E o \in OrgIds : OrganismAges(o)
    \/ ProcessTick

\* the whole program
Program == Init /\ [][Next]_vars

\* The binding table: actors come, go, request and release, and ticks run;
\* no organism accumulates evaluation time, so remove_worst finds none.
NextTable ==
    \/ \E a \in Actors : get_organism(a)
    \/ \E a \in Actors : get_organism_empty(a)
    \/ \E a \in Actors : release_organism(a)
    \/ \E a \in Actors : release_organism_unbound(a)
    \/ \E a \in Actors : ActorAppears(a)
    \/ \E a \in Actors : ActorDisappears(a)
    \/ ProcessTick

InitTable == Init /\ compat_threshold = kMinCompat

Spec == InitTable /\ [][NextTable]_vars

\* The evolution scheduler: organisms age and ticks run; no actor exists.
NextEvolve ==
    \/ \E o \in OrgIds : OrganismAges(o)
    \/ ProcessTick

\* No unit is deleted here, so the deletion half of the activation test
\* never changes; it is taken as passed.
InitEvolve ==
    /\ Init
    /\ mTotalUnitsDeleted = 0
    /\ mUnitsToDeleteBeforeFirstJudgment = 0

SpecEvolve == InitEvolve /\ [][NextEvolve]_vars

\* The fitness pass on its inputs: a Brain list that wraps every Organism,
\* any raw scores, any smited flags, every Organism eligible or not; the
\* activation test cannot pass (no unit is ever deleted).
InitEval ==
    /\ Constructed
    /\ debug \in BOOLEAN
    /\ mBrainList = [i \in 1 .. PopSize |-> i]
    /\ mAbsoluteScore \in [Brains -> Scores]
    /\ time_alive \in {f \in [OrgIds -> {0, time_alive_minimum}] :
                          \A o \in OrgIds \ organisms : f[o] = 0}
    /\ smited \in {f \in [OrgIds -> BOOLEAN] :
                      \A o \in OrgIds \ organisms : f[o] = FALSE}
    /\ fitness = [o \in OrgIds |-> 0]
    /\ mTotalUnitsDeleted = 0
    /\ mEvolutionTickCount = 0
    /\ mUnitsToDeleteBeforeFirstJudgment = PopSize
    /\ mTimeBetweenEvolutions \in Uninit
    /\ compat_threshold = kMinCompat

NextEval == ProcessTick

SpecEval == InitEval /\ [][NextEval]_vars

\* The activation test under the thresholds of the scheduling scenario;
\* each counter starts at zero or at some other value, here the threshold.
InitSched ==
    /\ Constructed
    /\ FreshPopulation
    /\ debug \in BOOLEAN
    /\ mBrainList = << >>
    /\ mUnitsToDeleteBeforeFirstJudgment = ScenarioDeletions
    /\ mTimeBetweenEvolutions = ScenarioTicks
    /\ mTotalUnitsDeleted \in {0, ScenarioDeletions}
    /\ mEvolutionTickCount \in {0, ScenarioTicks}
    /\ compat_threshold = kMinCompat

NextSched ==
    \/ \E a \in Actors : get_organism(a)
    \/ \E a \in Actors : ActorAppears(a)
    \/ \E a \in Actors : ActorDisappears(a)
    \/ ProcessTick

SpecSched == InitSched /\ [][NextSched]_vars

\* The calls of the agents alone: actors appear, request and release; no
\* tick runs, so the scheduler's counters are never read.
InitCalls ==
    /\ Init
    /\ mTotalUnitsDeleted = 0
    /\ mEvolutionTickCount = 0
    /\ mUnitsToDeleteBeforeFirstJudgment = 0
    /\ mTimeBetweenEvolutions = 0
    /\ compat_threshold = kMinCompat

NextCalls ==
    \/ \E a \in Actors : get_organism(a)
    \/ \E a \in Actors : get_organism_empty(a)
    \/ \E a \in Actors : release_organism(a)
    \/ \E a \in Actors : release_organism_unbound(a)
    \/ \E a \in Actors : ActorAppears(a)

SpecCalls == InitCalls /\ [][NextCalls]_vars

\* Death detection in front of the fitness pass: a Brain list that wraps
\* every Organism, any raw scores, every Organism evaluated once; actors
\* come, request and go, and ticks run. The thresholds are those of the
\* scheduling scenario, so no evolution cycle runs.
InitDetach ==
    /\ Constructed
    /\ debug \in BOOLEAN
    /\ mBrainList = [i \in 1 .. PopSize |-> i]
    /\ mAbsoluteScore \in [Brains -> Scores]
    /\ time_alive = [o \in OrgIds |-> IF o \in organisms THEN time_alive_minimum ELSE 0]
    /\ fitness = [o \in OrgIds |-> 0]
    /\ smited = [o \in OrgIds |-> FALSE]
    /\ mTotalUnitsDeleted = 0
    /\ mEvolutionTickCount = 0
    /\ mUnitsToDeleteBeforeFirstJudgment = ScenarioDeletions
    /\ mTimeBetweenEvolutions = ScenarioTicks
    /\ compat_threshold = kMinCompat

NextDetach ==
    \/ \E a \in Actors : get_organism(a)
    \/ \E a \in Actors : ActorAppears(a)
    \/ \E a \in Actors : ActorDisappears(a)
    \/ ProcessTick

SpecDetach == InitDetach /\ [][NextDetach]_vars

\* The re-tuning schedule on populations of several sizes: every Organism
\* of the initial population has been evaluated once, all with the same
\* fitness; ticks run and no actor exists.
PopSizes == {PopSize, LargePop}

InitAdjust ==
    \E n \in PopSizes :
        /\ RTNEAT(n)
        /\ mAbsoluteScore = [b \in 1 .. n |-> 0]
        /\ time_alive = [o \in 1 .. (n + MaxOffspring) |->
                            IF o <= n THEN time_alive_minimum ELSE 0]
        /\ fitness = [o \in 1 .. (n + MaxOffspring) |-> 0]
        /\ smited = [o \in 1 .. (n + MaxOffspring) |-> FALSE]
        /\ debug \in BOOLEAN
        /\ mBrainList = << >>
        /\ mTotalUnitsDeleted = 0
        /\ mUnitsToDeleteBeforeFirstJudgment = 0
        /\ mEvolutionTickCount \in Uninit
        /\ mTimeBetweenEvolutions \in Uninit
        /\ compat_threshold = kMinCompat

NextAdjust == ProcessTick

SpecAdjust == InitAdjust /\ [][NextAdjust]_vars

\* ------------------------------------------------------------- properties
BoundCount(b) == Cardinality({p \in mBrainBodyMap : p[2] = b})

TickDone == last.op = "tick" /\ last.completed

\* the Brains of mBrainList whose Organism the fitness pass treats as eligible
EligibleBrains ==
    {b \in Brains : /\ \E i \in DOMAIN mBrainList : mBrainList[i] = b
                    /\ Eligible(time_alive, b)}

\* C1: every Brain is bound to exactly one actor or queued exactly once,
\* never both, never neither, never twice in the queue.
C1_BrainsPartitioned ==
    halted = "running" =>
        \A b \in Brains : BoundCount(b) + Count(mWaitingBrainList, b) = 1

\* C2: once release_organism(actor) has returned for a bound actor, the
\* actor has no organism and its former Brain is queued exactly once.
C2_ReleaseUnbinds ==
    (last.op = "release" /\ halted = "running") =>
        /\ ~have_organism(last.actor)
        /\ Count(mWaitingBrainList, last.brain) = 1

\* C3: at the end of a tick, every actor that was bound and absent when the
\* tick ran has no organism, and its former Brain is queued exactly once.
C3_AbsentActorDetached ==
    TickDone =>
        \A p \in last.absent :
            /\ ~have_organism(p[1])
            /\ Count(mWaitingBrainList, p[2]) = 1

\* C4: a get_organism call by an actor that obtained a Brain earlier, and
\* was neither released nor gone since, returns that same Brain.
C4_RequestIdempotent ==
    (last.op = "get" /\ halted = "running" /\ last.prev # NoBrain) =>
        last.brain = last.prev

\* C5: after the fitness pass of a tick, every Organism that has lived
\* time_alive_minimum has a fitness of at least 0, whatever the raw scores
\* and the smited flags.
C5_FitnessNonNegative ==
    TickDone =>
        \A o \in organisms :
            time_alive[o] >= time_alive_minimum => fitness[o] >= 0

C5_Witness ==
    /\ TickDone
    /\ \E a, b \in EligibleBrains :
          /\ mAbsoluteScore[a] < 0
          /\ smited[mOrganism[b]]
          /\ fitness[mOrganism[b]] > 0

\* the lowest raw score among the eligible Brains
LowestEligibleScore == Min({mAbsoluteScore[b] : b \in EligibleBrains})

\* C6: when some eligible Brain has a negative raw score, every eligible
\* un-smited Organism gets its raw score minus the lowest eligible raw
\* score: the lowest one gets exactly 0, and a lower raw score gets a
\* strictly lower fitness.
C6_ShiftKeepsOrder ==
    (TickDone /\ \E b \in EligibleBrains : mAbsoluteScore[b] < 0) =>
        \A a \in EligibleBrains :
            ~smited[mOrganism[a]] =>
                /\ fitness[mOrganism[a]] =
                      FitnessScale * (mAbsoluteScore[a] - LowestEligibleScore)
                /\ mAbsoluteScore[a] = LowestEligibleScore =>
                      fitness[mOrganism[a]] = 0
                /\ \A b \in EligibleBrains :
                      (~smited[mOrganism[b]] /\ mAbsoluteScore[a] < mAbsoluteScore[b])
                          => fitness[mOrganism[a]] < fitness[mOrganism[b]]

C6_Witness ==
    /\ TickDone
    /\ \E a, b \in EligibleBrains :
          /\ ~smited[mOrganism[a]] /\ ~smited[mOrganism[b]]
          /\ mAbsoluteScore[a] < 0
          /\ mAbsoluteScore[a] < mAbsoluteScore[b]
          /\ fitness[mOrganism[a]] = 0
          /\ fitness[mOrganism[b]] > 0

\* the fitness the pass gives Brain b's Organism with the smited flag f,
\* all else in the population as it is
FitnessIfSmited(b, f) ==
    AssignedFitness(mAbsoluteScore[b], minAbsoluteScore(time_alive), f)

\* C7 as stated: for every eligible Organism the fitness assigned when it
\* is smited is strictly less than the fitness assigned when it is not.
C7_SmitedStrictlyLess ==
    TickDone =>
        \A b \in EligibleBrains :
            /\ fitness[mOrganism[b]] = FitnessIfSmited(b, smited[mOrganism[b]])
            /\ FitnessIfSmited(b, TRUE) < FitnessIfSmited(b, FALSE)

\* C7 as amended: the smited fitness is 0.01 times the un-smited one, never
\* greater, and strictly less exactly when the un-smited fitness is not 0.
C7_SmitedScaled ==
    TickDone =>
        \A b \in EligibleBrains :
            /\ fitness[mOrganism[b]] = FitnessIfSmited(b, smited[mOrganism[b]])
            /\ FitnessScale * FitnessIfSmited(b, TRUE)
                  = SmiteScale * FitnessIfSmited(b, FALSE)
            /\ FitnessIfSmited(b, TRUE) <= FitnessIfSmited(b, FALSE)
            /\ (FitnessIfSmited(b, TRUE) < FitnessIfSmited(b, FALSE))
                  <=> (FitnessIfSmited(b, FALSE) # 0)

C7_Witness ==
    /\ TickDone
    /\ \E a, b \in EligibleBrains :
          /\ smited[mOrganism[a]] /\ fitness[mOrganism[a]] > 0
          /\ smited[mOrganism[b]] /\ fitness[mOrganism[b]] = 0

\* C8: a tick's evolution cycle removes nothing and reproduces nothing, or
\* removes exactly one Organism and adds exactly one new one; the
\* population keeps its initial size.
C8_PopulationSizeKept ==
    /\ Cardinality(organisms) = PopSize
    /\ TickDone =>
          \/ /\ last.removed = NoOrg
             /\ last.born = NoOrg
             /\ organisms = last.popBefore
          \/ /\ last.removed \in last.popBefore
             /\ last.born \notin last.popBefore
             /\ organisms = (last.popBefore \ {last.removed}) \cup {last.born}

C8_Witness ==
    /\ TickDone
    /\ last.fired
    /\ last.removed # NoOrg
    /\ last.born \in organisms

\* C9: no step takes the compatibility threshold below 0.3: a cycle that
\* adjusts it leaves it at 0.3 or more, and once at 0.3 or more it stays so.
C9_CompatFloor ==
    [][((last'.op = "tick" /\ last'.completed /\ last'.adjusted)
            \/ compat_threshold >= kMinCompat)
         => compat_threshold' >= kMinCompat]_vars

C9_Witness ==
    /\ TickDone
    /\ last.adjusted
    /\ last.species < num_species_target
    /\ last.compatBefore - compat_mod < kMinCompat
    /\ compat_threshold = kMinCompat
    /\ mOffspringCount >= PopSize + 2

\* C10: a tick runs an evolution cycle iff, after its death detection, the
\* deletions observed since construction have reached
\* mUnitsToDeleteBeforeFirstJudgment and the ticks since the last cycle
\* have reached mTimeBetweenEvolutions; a cycle leaves the tick counter at
\* 0; with thresholds 5 and 10 no cycle runs while at most 4 deletions
\* were observed, and one runs on tick 13 with the 5th.
C10_ActivationRule ==
    TickDone =>
        /\ last.fired <=>
              (/\ last.deletedAtTest >= mUnitsToDeleteBeforeFirstJudgment
               /\ last.ticksAtTest >= mTimeBetweenEvolutions)
        /\ last.fired => mEvolutionTickCount = 0
        /\ (/\ mUnitsToDeleteBeforeFirstJudgment = ScenarioDeletions
            /\ mTimeBetweenEvolutions = ScenarioTicks
            /\ last.deletedAtTest < ScenarioDeletions) => ~last.fired
        /\ (/\ mUnitsToDeleteBeforeFirstJudgment = ScenarioDeletions
            /\ mTimeBetweenEvolutions = ScenarioTicks
            /\ last.deletedAtTest = ScenarioDeletions
            /\ last.ticksAtTest = ScenarioFiringTick) => last.fired

\* the Brains the constructor created, one per Organism of the population
brainCount == Cardinality(DOMAIN mOrganism)

\* compatAdjustFrequency as specified: brainCount / 10, at least 1
compatAdjustFrequency ==
    IF brainCount \div 10 < 1 THEN 1 ELSE brainCount \div 10

\* C11: the cycle that performs the n-th reproduction since construction
\* adjusts the threshold and reassigns the species iff n is a multiple of
\* compatAdjustFrequency, whatever the population size.
C11_AdjustEveryKth ==
    (TickDone /\ last.removed # NoOrg) =>
        (last.adjusted <=>
            (mOffspringCount - brainCount) % compatAdjustFrequency = 0)

\* C12: a get_organism call by an unbound actor while the waiting queue is
\* empty stops at an assertion: no Brain is returned, no binding is
\* installed and the queue is left alone.
C12_EmptyQueueRequestAsserts ==
    [][(last'.op = "get" /\ ~have_organism(last'.actor) /\ ~ready)
         => /\ halted' = "assert"
            /\ last'.brain = NoBrain
            /\ mBrainBodyMap' = mBrainBodyMap
            /\ mWaitingBrainList' = mWaitingBrainList]_vars

C14_NoOpKeepsTickCount ==
    [][(last'.op = "tick" /\ last'.completed /\ last'.fired /\ last'.removed = NoOrg)
         => /\ organisms' = organisms
            /\ mOffspringCount' = mOffspringCount
            /\ compat_threshold' = compat_threshold
            /\ mEvolutionTickCount' = mEvolutionTickCount + 1
            /\ Judgment(mTotalUnitsDeleted', mEvolutionTickCount' + 1)]_vars

\* the threshold t moved one step toward a species count of
\* kNumSpeciesTarget, a decrease stopping at the floor
TowardTarget(t, num_species) ==
    IF num_species < kNumSpeciesTarget
    THEN IF t - compat_mod < kMinCompat THEN kMinCompat ELSE t - compat_mod
    ELSE IF num_species > kNumSpeciesTarget
         THEN t + compat_mod
         ELSE t

\* C15: a cycle that re-tunes a threshold of 0.3 or more lowers it by 0.1
\* (not below 0.3) iff the species count is below 5, raises it by 0.1 iff
\* the count is above 5, and leaves it alone at exactly 5.
C15_MovesTowardFive ==
    (TickDone /\ last.adjusted /\ last.compatBefore >= kMinCompat) =>
        /\ compat_threshold = TowardTarget(last.compatBefore, last.species)
        /\ (compat_threshold < last.compatBefore) <=>
              (last.species < kNumSpeciesTarget
                 /\ last.compatBefore - compat_mod >= kMinCompat)
        /\ (compat_threshold > last.compatBefore) <=>
              (last.species > kNumSpeciesTarget)

\* C16: after a cycle that removed an Organism, every Brain that
\* referenced it references the offspring, is bound to no actor and is in
\* the waiting queue.
C16_RemovedBrainRequeued ==
    [][(last'.op = "tick" /\ last'.completed /\ last'.removed # NoOrg)
         => \A b \in Brains :
               mOrganism[b] = last'.removed =>
                   /\ mOrganism'[b] = last'.born
                   /\ ~\E p \in mBrainBodyMap' : p[2] = b
                   /\ \E i \in DOMAIN mWaitingBrainList' :
                          mWaitingBrainList'[i] = b]_vars

\* the Brains a tick's death detection detaches
Detached(absent) == {p[2] : p \in absent}

\* the lowest raw score of the pass when the Brains of D are left out of it
minAbsoluteScoreWithout(D) ==
    Min({0} \cup {mAbsoluteScore[b] : b \in EligibleBrains \ D})

AbsentBindings == {p \in mBrainBodyMap : p[1] \notin present}

\* C18: a tick detaches every binding of an absent actor before its
\* fitness pass (no absent actor is bound when the pass runs or when the
\* tick ends); a tick stopped inside the pass runs no evolution cycle and
\* does not reset the tick counter; a completed tick runs its cycle iff
\* the deletion counter, this tick's detachments included, and the tick
\* counter have reached their thresholds.
C18_PhasesInOrder ==
    [][(last'.op = "tick")
         => /\ \A p \in mBrainBodyMap' : p[1] \in present
            /\ mBrainBodyMap' = mBrainBodyMap \ AbsentBindings
            /\ ~last'.completed =>
                  /\ organisms' = organisms
                  /\ mOffspringCount' = mOffspringCount
                  /\ evolved' = evolved
                  /\ mEvolutionTickCount' = mEvolutionTickCount + 1
                  /\ mTotalUnitsDeleted' = mTotalUnitsDeleted + Cardinality(AbsentBindings)
            /\ last'.completed =>
                  (last'.fired <=>
                      /\ mTotalUnitsDeleted + Cardinality(AbsentBindings)
                            >= mUnitsToDeleteBeforeFirstJudgment
                      /\ mEvolutionTickCount + 1 >= mTimeBetweenEvolutions)]_vars

C18_Witness ==
    /\ TickDone
    /\ last.fired
    /\ last.absent # {}
    /\ mTotalUnitsDeleted >= mUnitsToDeleteBeforeFirstJudgment
    /\ mTotalUnitsDeleted - Cardinality(last.absent) < mUnitsToDeleteBeforeFirstJudgment

\* C19: a tick runs at most one evolution cycle (at most one Organism
\* leaves and one joins), and a tick that runs a cycle after an earlier
\* one comes at least mTimeBetweenEvolutions ticks after it.
C19_RateLimited ==
    TickDone =>
        /\ Cardinality(last.popBefore \ organisms) <= 1
        /\ Cardinality(organisms \ last.popBefore) <= 1
        /\ (last.fired /\ last.again) =>
               last.ticksAtTest >= mTimeBetweenEvolutions

C19_Witness ==
    /\ TickDone
    /\ last.fired
    /\ last.again
    /\ last.ticksAtTest = mTimeBetweenEvolutions
    /\ mTimeBetweenEvolutions > 1
    /\ deletionsObserved > 0

\* C20: every Brain references an Organism of the current population, and
\* no two Brains reference the same Organism.
C20_BrainsInjectIntoPopulation ==
    \A b \in Brains :
        /\ mOrganism[b] \in organisms
        /\ \A c \in Brains : mOrganism[b] = mOrganism[c] => b = c

====
